---- MODULE Spec2Model ----
(***************************************************************************)
(* The pendulum simulator: Simulator (state, controls, handleFrame, the    *)
(* buttons and sliders), PendulumCanvas (the animation-frame loop of its   *)
(* effect) and the rk4 integrator.                                         *)
(*                                                                         *)
(* Numbers.  Times are whole milliseconds, so that deltaTime (seconds in   *)
(* the code) is a count of thousandths of a second; length and mass are    *)
(* tenths, gravity is hundredths and damping is tenths of a percent.       *)
(* The physical quantities (angle, angularVelocity, trail coordinates) are *)
(* computed in the prime field of size Modulus: + - * / are exact there,   *)
(* so rk4 is evaluated operation by operation as it is written; Math.sin   *)
(* and Math.cos are fixed tables over the field.  NonFinite stands for the *)
(* IEEE values NaN, Infinity and -Infinity.                                *)
(*                                                                         *)
(* React.  setState/setControls updater functions are applied in the order *)
(* they were enqueued, so `state` and `controls` hold the value of the     *)
(* hook after every enqueued update.  A closure (animate, handleFrame)     *)
(* sees the state and controls of the render that created it.  An update   *)
(* made in a click or change handler is rendered and its effects are run   *)
(* before the handler's event ends; an update made in an animation-frame   *)
(* callback is rendered later (Commit), and further frames may fire first. *)
(***************************************************************************)
EXTENDS Integers, Sequences, FiniteSets, TLC

VARIABLES
  state,          \* Simulator: useState<PendulumState>
  controls,       \* Simulator: useState<SimulationControls>
  simLastTimeRef, \* Simulator: lastTimeRef
  pausedTimeRef,  \* Simulator: pausedTimeRef
  lastTimeRef,    \* PendulumCanvas: lastTimeRef
  frameRef,       \* PendulumCanvas: frameRef (0: undefined)
  pending,        \* the browser's pending animation-frame callbacks
  effect,         \* the effect that is set up (each run of the effect has its own name)
  dirty,          \* an update enqueued by a frame awaits its render
  mounted,        \* the component is mounted
  now,            \* the clock, ms
  frames,         \* frames fired so far
  events,         \* user events so far
  appended,       \* the points pushed onto the trail since the last reset
  handed,         \* the deltaTime values handed to onFrame
  fired,          \* the callback that fired last
  lastOp,         \* the operation that ran last
  arg,            \* the arguments of one isolated step (SpecStep)
  res             \* the result of that step (SpecStep)

vars == <<state, controls, simLastTimeRef, pausedTimeRef, lastTimeRef, frameRef,
          pending, effect, dirty, mounted, now, frames, events,
          appended, handed, fired, lastOp, arg, res>>

----------------------------------------------------------------------------
(* Bounds of the model *)

MaxFrames == 3
MaxEvents == 2
ExtraFrames == 2
MaxTrailEvents == 1

(* Field arithmetic: a prime that divides none of 2, 6, 10, 100, 1000 *)
Modulus == 2 * 6 + 1
Field == 0 .. (Modulus - 1)
NonFinite == 0 - 1
Number == Field \cup {NonFinite}

Finite(a) == a \in Field

Inv(a) == CHOOSE x \in Field : (a * x) % Modulus = 1

Add(a, b) == IF Finite(a) /\ Finite(b) THEN (a + b) % Modulus ELSE NonFinite

Neg(a) == IF Finite(a) THEN (Modulus - a) % Modulus ELSE NonFinite

Sub(a, b) == Add(a, Neg(b))

Mul(a, b) == IF Finite(a) /\ Finite(b) THEN (a * b) % Modulus ELSE NonFinite

\* x / 0 is NaN or an infinity; a finite x over an infinity is 0
Div(a, b) ==
  IF ~Finite(a) THEN NonFinite
  ELSE IF ~Finite(b) THEN 0
  ELSE IF b = 0 THEN NonFinite
  ELSE (a * Inv(b)) % Modulus

\* the number n/d of the source, d a power of ten
Num(n, d) == ((n % Modulus) * Inv(d % Modulus)) % Modulus

\* the same for a value that may be NaN or infinite
NumOrNaN(n, d) == IF n = NonFinite THEN NonFinite ELSE Num(n, d)

SinTable == <<0, 5, 11, 3, 8, 1, 12, 6, 2, 9, 4, 10, 7>>
CosTable == <<1, 7, 4, 10, 0, 12, 3, 9, 6, 2, 11, 5, 8>>

MathSin(x) == IF Finite(x) THEN SinTable[x + 1] ELSE NonFinite
MathCos(x) == IF Finite(x) THEN CosTable[x + 1] ELSE NonFinite

PiOver4 == 3

----------------------------------------------------------------------------
(* Simulator.tsx: rk4 *)

f(state_length, gravity, damping, theta, omega) ==
  LET dtheta == omega
      domega == Sub(Mul(Div(Neg(gravity), state_length), MathSin(theta)),
                    Mul(damping, omega))
  IN  <<dtheta, domega>>

\* rk4 with the weights of the stages forgotten: k1 + k2 + k3 + k4
rk4Unweighted(st, dt, gravity, damping) ==
  LET theta == st.angle
      omega == st.angularVelocity
      two == Num(2, 1)
      six == Num(6, 1)
      k1 == f(st.length, gravity, damping, theta, omega)
      k2 == f(st.length, gravity, damping,
              Add(theta, Div(Mul(k1[1], dt), two)),
              Add(omega, Div(Mul(k1[2], dt), two)))
      k3 == f(st.length, gravity, damping,
              Add(theta, Div(Mul(k2[1], dt), two)),
              Add(omega, Div(Mul(k2[2], dt), two)))
      k4 == f(st.length, gravity, damping,
              Add(theta, Mul(k3[1], dt)),
              Add(omega, Mul(k3[2], dt)))
      newTheta == Add(theta, Mul(Div(dt, six),
                    Add(Add(Add(k1[1], k2[1]), k3[1]), k4[1])))
      newOmega == Add(omega, Mul(Div(dt, six),
                    Add(Add(Add(k1[2], k2[2]), k3[2]), k4[2])))
  IN  <<newTheta, newOmega>>

rk4(st, dt, gravity, damping) ==
  LET theta == st.angle
      omega == st.angularVelocity
      two == Num(2, 1)
      six == Num(6, 1)
      k1 == f(st.length, gravity, damping, theta, omega)
      k2 == f(st.length, gravity, damping,
              Add(theta, Div(Mul(k1[1], dt), two)),
              Add(omega, Div(Mul(k1[2], dt), two)))
      k3 == f(st.length, gravity, damping,
              Add(theta, Div(Mul(k2[1], dt), two)),
              Add(omega, Div(Mul(k2[2], dt), two)))
      k4 == f(st.length, gravity, damping,
              Add(theta, Mul(k3[1], dt)),
              Add(omega, Mul(k3[2], dt)))
      newTheta == Add(theta, Mul(Div(dt, six),
                    Add(Add(Add(k1[1], Mul(two, k2[1])), Mul(two, k3[1])), k4[1])))
      newOmega == Add(omega, Mul(Div(dt, six),
                    Add(Add(Add(k1[2], Mul(two, k2[2])), Mul(two, k3[2])), k4[2])))
  IN  <<newTheta, newOmega>>

----------------------------------------------------------------------------
(* Simulator.tsx: the component's state *)

TrailCap == 50

InitialState ==
  [angle |-> PiOver4, angularVelocity |-> 0, length |-> 20, mass |-> 10,
   trail |-> <<>>]

InitialControls ==
  [isRunning |-> TRUE, gravity |-> 981, damping |-> 5, showTrail |-> TRUE]

\* the values the sliders are moved to
LengthValues == {20, 40}
MassValues == {10, 20}
DampingValues == {500}
GravityValues == {2000}

\* ShiftWhileOver with pop() for shift(): the newest point is evicted
RECURSIVE ShiftWhileOverPop(_)
ShiftWhileOverPop(newTrail) ==
  IF Len(newTrail) > TrailCap
  THEN ShiftWhileOverPop(SubSeq(newTrail, 1, Len(newTrail) - 1))
  ELSE newTrail

RECURSIVE ShiftWhileOver(_)
ShiftWhileOver(newTrail) ==
  IF Len(newTrail) > TrailCap THEN ShiftWhileOver(Tail(newTrail)) ELSE newTrail

\* the bob's position for the trail, from the new angle and prev.length
BobPoint(newAngle, len) ==
  LET pivotX == Num(300, 1)
      pivotY == Num(125, 1)
      stringLength == Mul(len, Num(150, 1))
  IN  <<Add(pivotX, Mul(MathSin(newAngle), stringLength)),
        Add(pivotY, Mul(MathCos(newAngle), stringLength))>>

\* Updater without the test of showTrail
UpdaterAlwaysPush(c, prev, deltaTime) ==
  LET dt == Num(deltaTime, 1000)
      len == Num(prev.length, 10)
      new == rk4([angle |-> prev.angle, angularVelocity |-> prev.angularVelocity,
                  length |-> len],
                 dt, NumOrNaN(c.gravity, 100),
                 Div(NumOrNaN(c.damping, 10), Num(100, 1)))
      newTrail == ShiftWhileOver(Append(prev.trail, BobPoint(new[1], len)))
  IN  [prev EXCEPT !.angle = new[1], !.angularVelocity = new[2],
                   !.trail = newTrail]

\* the updater handleFrame hands to setState, with the controls of its closure
Updater(c, prev, deltaTime) ==
  LET dt == Num(deltaTime, 1000)
      len == Num(prev.length, 10)
      new == rk4([angle |-> prev.angle, angularVelocity |-> prev.angularVelocity,
                  length |-> len],
                 dt, NumOrNaN(c.gravity, 100),
                 Div(NumOrNaN(c.damping, 10), Num(100, 1)))
      newTrail == IF c.showTrail
                  THEN ShiftWhileOver(Append(prev.trail, BobPoint(new[1], len)))
                  ELSE prev.trail
  IN  [prev EXCEPT !.angle = new[1], !.angularVelocity = new[2],
                   !.trail = newTrail]

\* handleFrame updating from the state of its closure, not from prev
handleFrameStale(cb, deltaTime) ==
  IF ~cb.controls.isRunning THEN state
  ELSE Updater(cb.controls, cb.state, deltaTime)

\* handleFrame as the callback cb sees it: the state it leaves in the hook
handleFrame(cb, deltaTime) ==
  IF ~cb.controls.isRunning THEN state
  ELSE Updater(cb.controls, state, deltaTime)

\* handleFrame as the callback cb sees it: what it leaves in pausedTimeRef
handleFramePaused(cb, deltaTime) ==
  IF ~cb.controls.isRunning THEN deltaTime ELSE pausedTimeRef

----------------------------------------------------------------------------
(* simulation.ts: PendulumCanvas, the effect and its animation-frame loop *)

MaxDelta == 17

Min(a, b) == IF a < b THEN a ELSE b

\* DeltaTime without the cap
DeltaTimeUncapped(currentTime, last) == currentTime - last

\* animate: Math.min((currentTime - lastTimeRef.current) / 1000, 0.017)
DeltaTime(currentTime, last) == Min(currentTime - last, MaxDelta)

Callback(handle, st, c, gen) ==
  [handle |-> handle, state |-> st, controls |-> c, gen |-> gen]

\* cancelAnimationFrame(handle)
Cancel(handle) == {cb \in pending : cb.handle # handle}

\* requestAnimationFrame returns a handle that names no other callback: the
\* handles are compared, never computed with, so the least free one is taken
FreshHandle(held) ==
  CHOOSE h \in 1 .. (Cardinality(held) + 1) : h \notin held

Handles(cbs) == {cb.handle : cb \in cbs} \cup {frameRef}

Effects(cbs) == {cb.gen : cb \in cbs} \cup {effect}

\* Render with an effect whose deps never change: it is not run again
RenderStale(st, c) == UNCHANGED <<pending, frameRef, effect>>

\* The effect's deps [state, controls, onFrame] changed: the cleanup of the
\* effect that is set up runs (it cancels frameRef.current), then the effect
\* runs again and requests a frame for an animate that closes over st and c.
Render(st, c) ==
  LET kept == IF frameRef # 0 THEN Cancel(frameRef) ELSE pending
      handle == FreshHandle(Handles(kept))
      gen == FreshHandle(Effects(kept))
  IN  /\ pending' = kept \cup {Callback(handle, st, c, gen)}
      /\ frameRef' = handle
      /\ effect' = gen

\* Reschedule that drops the handle instead of storing it in frameRef
RescheduleUntracked(cb) ==
  LET kept == pending \ {cb}
      handle == FreshHandle(Handles(kept) \cup {cb.handle})
  IN  /\ pending' = kept \cup {Callback(handle, cb.state, cb.controls, cb.gen)}
      /\ frameRef' = frameRef

\* the last statement of animate: frameRef.current = requestAnimationFrame(animate)
Reschedule(cb) ==
  LET kept == pending \ {cb}
      handle == FreshHandle(Handles(kept) \cup {cb.handle})
  IN  /\ pending' = kept \cup {Callback(handle, cb.state, cb.controls, cb.gen)}
      /\ frameRef' = handle

\* The browser runs a pending callback at the time now + adv.
Frame(maxF, advs) ==
  /\ mounted
  /\ frames < maxF
  /\ \E cb \in pending, adv \in advs :
       LET currentTime == now + adv
           last == IF lastTimeRef = 0 THEN currentTime ELSE lastTimeRef
           deltaTime == DeltaTime(currentTime, last)
           calls == cb.controls.isRunning
           new == IF calls THEN handleFrame(cb, deltaTime) ELSE state
       IN  /\ now' = currentTime
           /\ lastTimeRef' = currentTime
           /\ state' = new
           /\ pausedTimeRef' = (IF calls THEN handleFramePaused(cb, deltaTime)
                                ELSE pausedTimeRef)
           /\ dirty' = (dirty \/ calls)
           /\ handed' = (IF calls THEN <<deltaTime>> ELSE handed)
           /\ appended' = (IF calls /\ cb.controls.showTrail
                           THEN Append(appended,
                                       BobPoint(new.angle, Num(state.length, 10)))
                           ELSE appended)
           /\ fired' = [any |-> TRUE, live |-> cb.gen = effect, running |-> calls,
                        showTrail |-> cb.controls.showTrail,
                        stale |-> cb.state # state,
                        long |-> currentTime - last > MaxDelta,
                        first |-> lastTimeRef = 0]
           /\ Reschedule(cb)
  /\ frames' = frames + 1
  /\ lastOp' = "frame"
  /\ UNCHANGED <<controls, simLastTimeRef, effect, mounted, events, arg, res>>

\* React renders the update a frame enqueued and runs the effect again.
Commit ==
  /\ mounted
  /\ dirty
  /\ dirty' = FALSE
  /\ lastOp' = "commit"
  /\ Render(state, controls)
  /\ UNCHANGED <<state, controls, simLastTimeRef, pausedTimeRef, lastTimeRef,
                 mounted, now, frames, events, appended, handed, fired, arg, res>>

\* The component unmounts: the effect's cleanup runs.
Unmount(maxE, open) ==
  /\ mounted
  /\ events < maxE
  /\ open
  /\ mounted' = FALSE
  /\ pending' = (IF frameRef # 0 THEN Cancel(frameRef) ELSE pending)
  /\ events' = events + 1
  /\ lastOp' = "unmount"
  /\ UNCHANGED <<state, controls, simLastTimeRef, pausedTimeRef, lastTimeRef,
                 frameRef, effect, dirty, now, frames, appended,
                 handed, fired, arg, res>>

----------------------------------------------------------------------------
(* Simulator.tsx: the buttons and the sliders *)

\* a user event: maxE bounds their number, open says when they may come
UserEvent(maxE, open) ==
  /\ mounted
  /\ events < maxE
  /\ open
  /\ events' = events + 1
  /\ UNCHANGED <<pausedTimeRef, lastTimeRef, dirty, mounted, now, frames,
                 handed, fired, arg, res>>

toggleSimulation(maxE, open) ==
  /\ UserEvent(maxE, open)
  /\ lastOp' = "toggle"
  /\ controls' = [controls EXCEPT !.isRunning = ~controls.isRunning]
  /\ simLastTimeRef' = (IF ~controls.isRunning THEN now ELSE simLastTimeRef)
  /\ Render(state, controls')
  /\ UNCHANGED <<state, appended>>

\* resetSimulation that spreads prev into the new state: the sliders stay
resetSimulationKeepsSliders(maxE, open) ==
  /\ UserEvent(maxE, open)
  /\ lastOp' = "reset"
  /\ state' = [InitialState EXCEPT !.length = state.length, !.mass = state.mass]
  /\ controls' = [controls EXCEPT !.isRunning = TRUE]
  /\ simLastTimeRef' = now
  /\ appended' = <<>>
  /\ Render(state', controls')

\* resetSimulation that sets the controls to their initial values
resetSimulationAll(maxE, open) ==
  /\ UserEvent(maxE, open)
  /\ lastOp' = "reset"
  /\ state' = InitialState
  /\ controls' = InitialControls
  /\ simLastTimeRef' = now
  /\ appended' = <<>>
  /\ Render(state', controls')

resetSimulation(maxE, open) ==
  /\ UserEvent(maxE, open)
  /\ lastOp' = "reset"
  /\ state' = InitialState
  /\ controls' = [controls EXCEPT !.isRunning = TRUE]
  /\ simLastTimeRef' = now
  /\ appended' = <<>>
  /\ Render(state', controls')

toggleTrail(maxE, open) ==
  /\ UserEvent(maxE, open)
  /\ lastOp' = "trail"
  /\ controls' = [controls EXCEPT !.showTrail = ~controls.showTrail]
  /\ Render(state, controls')
  /\ UNCHANGED <<state, simLastTimeRef, appended>>

setLength(maxE, open) ==
  /\ UserEvent(maxE, open)
  /\ lastOp' = "length"
  /\ \E v \in LengthValues \ {state.length} :
       state' = [state EXCEPT !.length = v]
  /\ Render(state', controls)
  /\ UNCHANGED <<controls, simLastTimeRef, appended>>

setMass(maxE, open) ==
  /\ UserEvent(maxE, open)
  /\ lastOp' = "mass"
  /\ \E v \in MassValues \ {state.mass} :
       state' = [state EXCEPT !.mass = v]
  /\ Render(state', controls)
  /\ UNCHANGED <<controls, simLastTimeRef, appended>>

setDamping(maxE, open) ==
  /\ UserEvent(maxE, open)
  /\ lastOp' = "damping"
  /\ \E v \in DampingValues \ {controls.damping} :
       controls' = [controls EXCEPT !.damping = v]
  /\ Render(state, controls')
  /\ UNCHANGED <<state, simLastTimeRef, appended>>

setGravity(maxE, open) ==
  /\ UserEvent(maxE, open)
  /\ lastOp' = "gravity"
  /\ \E v \in GravityValues \ {controls.gravity} :
       controls' = [controls EXCEPT !.gravity = v]
  /\ Render(state, controls')
  /\ UNCHANGED <<state, simLastTimeRef, appended>>

----------------------------------------------------------------------------
(* The specifications *)

NoStep == [none |-> TRUE]

\* the component after its first render and the first run of the effect
Mounted ==
  /\ state = InitialState
  /\ controls = InitialControls
  /\ simLastTimeRef = 0
  /\ pausedTimeRef = 0
  /\ lastTimeRef = 0
  /\ frameRef = 1
  /\ pending = {Callback(1, InitialState, InitialControls, 1)}
  /\ effect = 1
  /\ dirty = FALSE
  /\ mounted = TRUE
  /\ now = 0
  /\ frames = 0
  /\ events = 0
  /\ appended = <<>>
  /\ handed = <<>>
  /\ fired = [any |-> FALSE, live |-> FALSE, running |-> FALSE,
              showTrail |-> FALSE, stale |-> FALSE, long |-> FALSE,
              first |-> FALSE]
  /\ lastOp = "mount"

Init ==
  /\ Mounted
  /\ arg = NoStep
  /\ res = NoStep

Advances == {16, 40}

Next ==
  \/ Frame(MaxFrames, Advances)
  \/ Commit
  \/ Unmount(MaxEvents, TRUE)
  \/ toggleSimulation(MaxEvents, TRUE)
  \/ resetSimulation(MaxEvents, TRUE)
  \/ toggleTrail(MaxEvents, TRUE)
  \/ setLength(MaxEvents, TRUE)
  \/ setMass(MaxEvents, TRUE)
  \/ setDamping(MaxEvents, TRUE)
  \/ setGravity(MaxEvents, TRUE)

Spec == Init /\ [][Next]_vars

\* Long runs, for the trail's capacity: frames 16 ms apart, and user events
\* in the first frames and in the frames around the capacity.
TrailFrames == TrailCap + ExtraFrames

TrailAdvances == {16}

EventWindow == frames < ExtraFrames \/ frames >= TrailCap - ExtraFrames

NextTrail ==
  \/ Frame(TrailFrames, TrailAdvances)
  \/ Commit
  \/ Unmount(MaxTrailEvents, EventWindow)
  \/ toggleSimulation(MaxTrailEvents, EventWindow)
  \/ resetSimulation(MaxTrailEvents, EventWindow)
  \/ toggleTrail(MaxTrailEvents, EventWindow)
  \/ setLength(MaxTrailEvents, EventWindow)
  \/ setMass(MaxTrailEvents, EventWindow)
  \/ setDamping(MaxTrailEvents, EventWindow)
  \/ setGravity(MaxTrailEvents, EventWindow)

SpecTrail == Init /\ [][NextTrail]_vars

----------------------------------------------------------------------------
(* One step in isolation: handleFrame's update as a function of the state, *)
(* the controls and deltaTime, the parameters out of range included        *)

StepStates ==
  [angle : Field, angularVelocity : Field, length : {0 - 5, 0, 5, 20},
   mass : {10}, trail : {<<>>}]

StepControls ==
  [isRunning : BOOLEAN, gravity : {981, NonFinite}, damping : {5, NonFinite},
   showTrail : BOOLEAN]

StepDeltas == {0, 10, 17}

StepInit ==
  /\ state \in StepStates
  /\ controls \in StepControls
  /\ arg \in [deltaTime : StepDeltas]
  /\ res = NoStep
  /\ simLastTimeRef = 0
  /\ pausedTimeRef = 0
  /\ lastTimeRef = 0
  /\ frameRef = 1
  /\ pending = {Callback(1, state, controls, 1)}
  /\ effect = 1
  /\ dirty = FALSE
  /\ mounted = TRUE
  /\ now = 0
  /\ frames = 0
  /\ events = 0
  /\ appended = <<>>
  /\ handed = <<>>
  /\ fired = [any |-> FALSE, live |-> FALSE, running |-> FALSE,
              showTrail |-> FALSE, stale |-> FALSE, long |-> FALSE,
              first |-> FALSE]
  /\ lastOp = "mount"

\* onFrame(deltaTime) on the state and controls drawn
Step ==
  /\ res = NoStep
  /\ \E cb \in pending :
       /\ res' = [none |-> FALSE, state |-> handleFrame(cb, arg.deltaTime)]
       /\ pausedTimeRef' = handleFramePaused(cb, arg.deltaTime)
  /\ lastOp' = "step"
  /\ UNCHANGED <<state, controls, simLastTimeRef, lastTimeRef,
                 frameRef, pending, effect, dirty, mounted, now, frames, events,
                 appended, handed, fired, arg>>

SpecStep == StepInit /\ [][Step]_vars

----------------------------------------------------------------------------
(* The trail *)

LastOf(s, n) == SubSeq(s, Len(s) - n + 1, Len(s))

\* C1: the trail never holds more than 50 points, and it is the last (at most
\* 50) points appended since the last reset, oldest first.
TrailIsLastAppended ==
  /\ Len(state.trail) <= TrailCap
  /\ state.trail = LastOf(appended, Min(Len(appended), TrailCap))

\* more than 50 points were appended, a user event among the frames
TrailEvicted ==
  /\ Len(appended) = TrailCap + 1
  /\ Len(state.trail) = TrailCap
  /\ events > 0

----------------------------------------------------------------------------
(* Frames *)

FrameFired == frames' # frames

SameMotion ==
  /\ state'.angle = state.angle
  /\ state'.angularVelocity = state.angularVelocity

\* C2: a frame that fires while isRunning is false leaves angle,
\* angularVelocity and trail as they were.
PausedFrameIsNoOp ==
  [][(FrameFired /\ ~controls.isRunning)
       => (SameMotion /\ state'.trail = state.trail)]_vars

\* a frame has fired during a pause that followed running ticks
FrameFiredWhilePaused ==
  /\ ~controls.isRunning
  /\ fired.any /\ ~fired.running
  /\ Len(state.trail) > 0

\* C3: with showTrail false a running tick steps angle and angularVelocity
\* and leaves the trail alone, and a change of showTrail leaves the trail alone.
HiddenTrailIsKept ==
  [][/\ (FrameFired /\ controls.isRunning /\ ~controls.showTrail)
          => /\ state'.trail = state.trail
             /\ \E d \in 0 .. MaxDelta :
                  /\ handed' = <<d>>
                  /\ state'.angle = Updater(controls, state, d).angle
                  /\ state'.angularVelocity
                       = Updater(controls, state, d).angularVelocity
     /\ (controls'.showTrail # controls.showTrail)
          => state'.trail = state.trail]_vars

\* a running tick has fired with showTrail false and a trail to keep
TickWithHiddenTrail ==
  /\ fired.running /\ ~fired.showTrail
  /\ lastOp = "frame"
  /\ Len(state.trail) > 0
  /\ state.angle # PiOver4

\* C7: a frame that fires while running applies exactly one step to the
\* state as it is, with the controls as they are, and its point is the
\* newest of the trail.
OneStepPerFrame ==
  [][(FrameFired /\ controls.isRunning)
       => \E d \in 0 .. MaxDelta :
            /\ handed' = <<d>>
            /\ state' = Updater(controls, state, d)
            /\ controls.showTrail
                 => /\ Len(appended') = Len(appended) + 1
                    /\ state'.trail[Len(state'.trail)]
                         = appended'[Len(appended')]]_vars

\* two frames have fired with no render between them
FrameBeforeRender ==
  /\ fired.running /\ fired.stale
  /\ lastOp = "frame"
  /\ Len(appended) >= 2

\* C8: at most one animation-frame callback is pending, it belongs to the
\* effect that is set up, none is pending once the component is unmounted,
\* and the callback that fired last belonged to the effect set up then.
OnePendingFrame ==
  /\ Cardinality(pending) <= 1
  /\ \A cb \in pending : cb.gen = effect /\ cb.handle = frameRef
  /\ ~mounted => pending = {}
  /\ fired.any => fired.live

\* the component was unmounted after frames and a render
TornDownAfterFrames ==
  /\ ~mounted
  /\ frames > 1
  /\ ~dirty
  /\ pending = {}

\* C10: every deltaTime handed to onFrame is between 0 and 0.017 s, and the
\* first frame after mount hands 0.
DeltaTimeInRange ==
  /\ \A i \in DOMAIN handed : 0 <= handed[i] /\ handed[i] <= MaxDelta
  /\ (fired.first /\ fired.running) => handed = <<0>>

\* a running frame has fired after a gap longer than the cap, after a resume
LongGapAfterResume ==
  /\ fired.running /\ fired.long
  /\ lastOp = "frame"
  /\ handed = <<MaxDelta>>
  /\ simLastTimeRef > 0

----------------------------------------------------------------------------
(* Reset *)

\* C4: after resetSimulation the state is the initial state and isRunning
\* is true.
ResetRestoresState ==
  lastOp = "reset" => (state = InitialState /\ controls.isRunning)

\* a reset came after frames and another user event
ResetAfterChanges ==
  /\ lastOp = "reset"
  /\ frames > 0
  /\ events > 1

----------------------------------------------------------------------------
(* The integrator *)

\* the right-hand side of the pendulum's equations
Pendulum(gravity, len, c, y) ==
  <<y[2], Sub(Neg(Mul(Div(gravity, len), MathSin(y[1]))), Mul(c, y[2]))>>

Along(y, k, h) == <<Add(y[1], Mul(h, k[1])), Add(y[2], Mul(h, k[2]))>>

Sum4(k1, k2, k3, k4) ==
  <<Add(Add(k1[1], Mul(2, k2[1])), Add(Mul(2, k3[1]), k4[1])),
    Add(Add(k1[2], Mul(2, k2[2])), Add(Mul(2, k3[2]), k4[2]))>>

\* the classical fourth-order Runge-Kutta step of size h from y
ClassicalRK4(gravity, len, c, y, h) ==
  LET k1 == Pendulum(gravity, len, c, y)
      k2 == Pendulum(gravity, len, c, Along(y, k1, Div(h, 2)))
      k3 == Pendulum(gravity, len, c, Along(y, k2, Div(h, 2)))
      k4 == Pendulum(gravity, len, c, Along(y, k3, h))
  IN  Along(y, Sum4(k1, k2, k3, k4), Div(h, 6))

Stepped == res.none = FALSE /\ controls.isRunning

\* C9: a running tick replaces (angle, angularVelocity) by the classical RK4
\* step of the damped pendulum, its damping coefficient being damping / 100.
StepIsClassicalRK4 ==
  Stepped
    => <<res.state.angle, res.state.angularVelocity>>
         = ClassicalRK4(NumOrNaN(controls.gravity, 100), Num(state.length, 10),
                        Div(NumOrNaN(controls.damping, 10), Num(100, 1)),
                        <<state.angle, state.angularVelocity>>,
                        Num(arg.deltaTime, 1000))

\* a step of 17 ms with valid parameters that moved the pendulum
SteppedValid ==
  /\ Stepped
  /\ arg.deltaTime = MaxDelta
  /\ state.length = 20 /\ controls.gravity = 981 /\ controls.damping = 5
  /\ state.angularVelocity # 0
  /\ res.state.angle # state.angle
  /\ res.state.angularVelocity # state.angularVelocity

InvalidParameters ==
  \/ state.length <= 0
  \/ controls.gravity = NonFinite
  \/ controls.damping = NonFinite

====
